---- MODULE Spec2Model ----
(***************************************************************************)
(* Die-Plate-Designer: the three Streamlit scripts of the repository, each *)
(* a top-to-bottom run (read the input controls, calculate, display the    *)
(* outputs, draw the 2D cross-section, the 3D surface, the ring layout).   *)
(*                                                                         *)
(* Lengths are exact: an input length is an integer number of 1/40 mm (the *)
(* finest slider step is 0.05 mm and the scripts halve diameters), and a   *)
(* derived quantity is a normalised rational [n, d] in the same unit.      *)
(* Angles fed to cos/sin are kept as rational fractions of a full turn.    *)
(* Quantities carrying a factor pi are kept as the rational coefficient of *)
(* pi.                                                                     *)
(***************************************************************************)
EXTENDS Integers, Sequences, FiniteSets, TLC

(* ---------------- bounds of the model ---------------- *)
MaxRows == 3
MaxHoles == 4

(* ---------------- units and exact arithmetic ---------------- *)
Mm(x) == 40 * x
Tenth(x) == 4 * x
Twentieth(x) == 2 * x

Abs(x) == IF x < 0 THEN -x ELSE x

RECURSIVE GCD(_, _)
GCD(a, b) == IF b = 0 THEN a ELSE GCD(b, a % b)

Rat(n, d) ==
    LET g == GCD(Abs(n), Abs(d))
        s == IF d < 0 THEN -1 ELSE 1
    IN  [n |-> (s * n) \div g, d |-> (s * d) \div g]

RatInt(x) == [n |-> x, d |-> 1]
RatAdd(a, b) == Rat(a.n * b.d + b.n * a.d, a.d * b.d)
RatSub(a, b) == Rat(a.n * b.d - b.n * a.d, a.d * b.d)
RatMul(a, b) == Rat(a.n * b.n, a.d * b.d)
RatDiv(a, b) == Rat(a.n * b.d, a.d * b.n)

Min2(a, b) == IF a <= b THEN a ELSE b
Max2(a, b) == IF a >= b THEN a ELSE b

(* ---------------- the three scripts ---------------- *)
Perforation6 == "die_perforation_6"
Final4 == "die_designer_final_4"
TechDraw == "die_designer_final_3_updated_v4_techdraw_updated"
Variants == {Perforation6, Final4, TechDraw}

(* ---------------- the input controls ---------------- *)
(* st.slider(label, min_value, max_value, value, step): the values the    *)
(* control can hand over.  Streamlit's slider keeps min <= value <= max by *)
(* widening the bounds to include the default value, so a default outside  *)
(* [min_value, max_value] extends the range instead of being clamped.      *)
SliderLo(lo, hi, value) == Min2(Min2(lo, hi), value)
SliderHi(lo, hi, value) == Max2(Max2(lo, hi), value)
SliderValues(lo, hi, value, step, samples) ==
    {v \in samples :
        /\ SliderLo(lo, hi, value) <= v
        /\ v <= SliderHi(lo, hi, value)
        /\ (v - SliderLo(lo, hi, value)) % step = 0}

(* the sampled positions of each control *)
PlateThicknessSamples == {Mm(4), Mm(10)}
ChannelLengthSamples == {Mm(1), Mm(4), Mm(5), Mm(10)}
FinalDiameterSamples == {Mm(3), Mm(10)}
ConeDiameterSamples == {Mm(3), Mm(6)}
PcdSamples == {Mm(50), Mm(100), Mm(120)}
HolesInRowSamples == {1, 3}
TotalHolesSamples4 == {100}
PelletSizeSamples == {Mm(5)}
ThroughputSamples == {100}


(* st.number_input(label, min_value, value): no upper limit *)
NumberInputValues(min_value, samples) == {v \in samples : v >= min_value}

VARIABLES variant, pc, err, inp, calc, shown, rendered, mesh, ring
vars == <<variant, pc, err, inp, calc, shown, rendered, mesh, ring>>

NoInp ==
    [plate_thickness |-> 0, final_diameter |-> 0, cone_diameter |-> 0,
     channel_length |-> 0, total_holes |-> 0, number_of_rows |-> 0,
     pellet_size |-> 0, dry_meal_throughput |-> 0,
     pcd_values |-> <<>>, holes_per_row_list |-> <<>>]

NoCalc ==
    [cone_length |-> 0, cone_radius |-> RatInt(0), cone_angle_deg |-> 0,
     holes_per_row |-> 0, open_area_one_hole |-> RatInt(0),
     total_open_area |-> RatInt(0), open_area_per_tonne |-> RatInt(0),
     expansion |-> RatInt(0), space_between_holes_list |-> <<>>,
     space_between_rows |-> RatInt(0)]

NoMesh == [z_cone |-> <<>>, r_cone |-> <<>>, z_channel |-> <<>>,
           r_channel |-> <<>>, theta |-> <<>>]

NoRing == [holes |-> <<>>, lim |-> RatInt(0)]

Init ==
    /\ variant \in Variants
    /\ pc = "start"
    /\ err = "none"
    /\ inp = NoInp
    /\ calc = NoCalc
    /\ shown = <<>>
    /\ rendered = <<>>
    /\ mesh = NoMesh
    /\ ring = NoRing

(* ---------------- die_designer_final_3_updated_v4_techdraw_updated.py ---- *)
(* The file does not compile: line 68 is an indented continuation left     *)
(* behind after the complete statement of lines 64-67 (IndentationError:   *)
(* unexpected indent), so no statement of the script ever runs.            *)
Compile ==
    /\ pc = "start"
    /\ variant = TechDraw
    /\ pc' = "failed"
    /\ err' = "IndentationError"
    /\ UNCHANGED <<variant, inp, calc, shown, rendered, mesh, ring>>

(* ---------------- reading the controls ---------------- *)
(* die_perforation_6.py lines 12-34 *)
ChannelLengthValues6(plate_thickness) ==
    SliderValues(Tenth(1), Min2(Mm(35), plate_thickness), Mm(5), Tenth(1),
                 ChannelLengthSamples)

(* die_designer_final_4.py line 21 *)
ChannelLengthValues4(plate_thickness) ==
    SliderValues(Mm(1), Min2(Mm(35), plate_thickness), Mm(10), Tenth(1),
                 ChannelLengthSamples)

PcdValues == SliderValues(Mm(50), Mm(600), Mm(100), Mm(1), PcdSamples)

ReadInputs6 ==
    /\ pc = "start"
    /\ variant = Perforation6
    /\ \E pt \in SliderValues(Mm(1), Mm(40), Mm(20), Twentieth(10), PlateThicknessSamples),
          fd \in SliderValues(Twentieth(6), Mm(20), Mm(3), Twentieth(1), FinalDiameterSamples),
          cd \in SliderValues(Twentieth(6), Mm(25), Mm(6), Twentieth(1), ConeDiameterSamples),
          ps \in SliderValues(Tenth(3), Mm(20), Mm(3), Tenth(1), PelletSizeSamples),
          th \in NumberInputValues(1, ThroughputSamples),
          holes \in NumberInputValues(1, 1..MaxHoles),
          rows \in NumberInputValues(1, 1..MaxRows) :
         \E cl \in ChannelLengthValues6(pt),
            pcds \in [1..rows -> PcdValues] :
            inp' = [plate_thickness |-> pt, final_diameter |-> fd,
                    cone_diameter |-> cd, channel_length |-> cl,
                    total_holes |-> holes, number_of_rows |-> rows,
                    pellet_size |-> ps, dry_meal_throughput |-> th,
                    pcd_values |-> pcds, holes_per_row_list |-> <<>>]
    /\ pc' = "calc"
    /\ UNCHANGED <<variant, err, calc, shown, rendered, mesh, ring>>

(* die_designer_final_4.py lines 12-36 *)
ReadInputs4 ==
    /\ pc = "start"
    /\ variant = Final4
    /\ \E pt \in SliderValues(Mm(1), Mm(40), Mm(20), Twentieth(10), PlateThicknessSamples),
          fd \in SliderValues(Twentieth(6), Mm(20), Mm(10), Twentieth(1), FinalDiameterSamples),
          cd \in SliderValues(Twentieth(6), Mm(25), Mm(12), Twentieth(1), ConeDiameterSamples),
          ps \in SliderValues(Tenth(3), Mm(20), Mm(5), Tenth(1), PelletSizeSamples),
          th \in SliderValues(4, 300, 100, 1, ThroughputSamples),
          holes \in NumberInputValues(1, TotalHolesSamples4),
          rows \in NumberInputValues(1, 1..MaxRows) :
         \E cl \in ChannelLengthValues4(pt),
            pcds \in [1..rows -> PcdValues],
            hpr \in [1..rows -> NumberInputValues(1, HolesInRowSamples)] :
            inp' = [plate_thickness |-> pt, final_diameter |-> fd,
                    cone_diameter |-> cd, channel_length |-> cl,
                    total_holes |-> holes, number_of_rows |-> rows,
                    pellet_size |-> ps, dry_meal_throughput |-> th,
                    pcd_values |-> pcds, holes_per_row_list |-> hpr]
    /\ pc' = "calc"
    /\ UNCHANGED <<variant, err, calc, shown, rendered, mesh, ring>>

(* ---------------- numpy / builtins used by the calculations ---------------- *)
(* np.arctan of a rational, in micro-radians: fixed-point evaluation of     *)
(* x / (1 + 0.28 x^2) on |x| <= 1 and of pi/2 - atan(1/x) beyond; odd in x. *)
ArcTanCore(a, b) ==
    LET x == (1000000 * a) \div b
        xm == x \div 1000
        q == 1000000 + (28 * xm * xm) \div 100
    IN  (x * 1000) \div (q \div 1000)

ArcTan(x) ==
    LET a == Abs(x.n)
        b == x.d
        r == IF a <= b THEN ArcTanCore(a, b) ELSE 1570796 - ArcTanCore(b, a)
    IN  IF x.n < 0 THEN -r ELSE r

(* np.degrees of micro-radians, in milli-degrees *)
Degrees(r) == IF r < 0 THEN -(((-r) * 573) \div 10000) ELSE (r * 573) \div 10000

(* int(x) of a non-negative rational: truncation *)
IntTrunc(x) == x.n \div x.d

(* sorted(list): insertion sort, ascending *)
RECURSIVE Insert(_, _)
Insert(x, s) ==
    IF s = <<>> THEN <<x>>
    ELSE IF x <= Head(s) THEN <<x>> \o s
    ELSE <<Head(s)>> \o Insert(x, Tail(s))

RECURSIVE Sorted(_)
Sorted(s) == IF s = <<>> THEN <<>> ELSE Insert(Head(s), Sorted(Tail(s)))

(* np.diff: consecutive differences *)
Diff(s) == [k \in 1..(Len(s) - 1) |-> s[k + 1] - s[k]]

RECURSIVE SumSeq(_)
SumSeq(s) == IF s = <<>> THEN 0 ELSE Head(s) + SumSeq(Tail(s))

(* np.mean of a non-empty sequence *)
Mean(s) == Rat(SumSeq(s), Len(s))

(* max(list) of a non-empty list *)
RECURSIVE MaxSeq(_)
MaxSeq(s) == IF Len(s) = 1 THEN s[1] ELSE Max2(Head(s), MaxSeq(Tail(s)))

(* np.linspace(start, stop, num): num samples, both ends included *)
Linspace(start, stop, num) ==
    [k \in 1..num |->
        IF k = num THEN stop
        ELSE RatAdd(start, RatMul(RatInt(k - 1),
                                  RatDiv(RatSub(stop, start), RatInt(num - 1))))]

(* np.full_like(a, fill) *)
FullLike(a, fill) == [k \in 1..Len(a) |-> fill]

(* ---------------- the calculations ---------------- *)
ConeLength(plate_thickness, channel_length) == plate_thickness - channel_length

(* die_perforation_6.py line 38 *)
ConeRadius6(cone_diameter, final_diameter) ==
    Rat(Abs(cone_diameter - final_diameter), 2)

(* die_designer_final_4.py line 40 *)
ConeRadius4(cone_diameter, final_diameter) ==
    Rat(cone_diameter - final_diameter, 2)

(* die_perforation_6.py lines 39-40 *)
ConeAngleDeg6(cone_radius, cone_length) ==
    Degrees(IF cone_length > 0
            THEN ArcTan(RatDiv(cone_radius, RatInt(cone_length)))
            ELSE 0)

(* die_designer_final_4.py lines 41-42: the float division raises           *)
(* ZeroDivisionError when cone_length is 0 *)
ConeAngleRaises4(cone_length) == cone_length = 0
ConeAngleDeg4(cone_radius, cone_length) ==
    Degrees(ArcTan(RatDiv(cone_radius, RatInt(cone_length))))

(* mutant: the count rounded up instead of truncated *)
HolesPerRowRoundedUp(total_holes, number_of_rows) ==
    (total_holes + number_of_rows - 1) \div number_of_rows

(* die_perforation_6.py line 41 *)
HolesPerRow(total_holes, number_of_rows) ==
    IntTrunc(Rat(total_holes, number_of_rows))

(* coefficient of pi in np.pi * (final_diameter / 2) ** 2 *)
OpenAreaOneHole(final_diameter) ==
    RatMul(Rat(final_diameter, 2), Rat(final_diameter, 2))

TotalOpenArea(open_area_one_hole, total_holes) ==
    RatMul(open_area_one_hole, RatInt(total_holes))

(* dry_meal_throughput is held in tenths of a tonne per hour *)
OpenAreaPerTonne(total_open_area, dry_meal_throughput) ==
    RatDiv(total_open_area, Rat(dry_meal_throughput, 10))

(* die_perforation_6.py line 45 *)
Expansion6(final_diameter, pellet_size) ==
    IF pellet_size > 0
    THEN RatMul(RatSub(RatInt(1), Rat(final_diameter, pellet_size)), RatInt(100))
    ELSE RatInt(0)

(* die_designer_final_4.py line 46 *)
Expansion4(final_diameter, pellet_size) ==
    RatMul(RatSub(RatInt(1), Rat(final_diameter, pellet_size)), RatInt(100))

(* die_perforation_6.py lines 50-52: arc_length = 2 pi radius / holes_per_row *)
(* raises ZeroDivisionError when holes_per_row is 0; spacing is             *)
(* arc_pi * pi - minus *)
(* mutant: the division yields inf instead of raising *)
SpacingNeverRaises(holes_per_row) == FALSE

SpacingRaises(holes_per_row) == holes_per_row = 0
SpaceBetweenHoles(pcd, holes_per_row, final_diameter) ==
    [arc_pi |-> RatDiv(RatMul(RatInt(2), Rat(pcd, 2)), RatInt(holes_per_row)),
     minus |-> final_diameter]

(* die_perforation_6.py lines 48-53 *)
SpaceBetweenHolesList(pcd_values, holes_per_row, final_diameter) ==
    [k \in 1..Len(pcd_values) |->
        SpaceBetweenHoles(pcd_values[k], holes_per_row, final_diameter)]

(* mutant: the PCD values are not sorted first *)
SpaceBetweenRowsUnsorted(pcd_values) ==
    IF Len(pcd_values) > 1 THEN Mean(Diff(pcd_values)) ELSE RatInt(0)

(* die_perforation_6.py line 56 *)
SpaceBetweenRows(pcd_values) ==
    IF Len(pcd_values) > 1 THEN Mean(Diff(Sorted(pcd_values))) ELSE RatInt(0)

Calculations6 ==
    /\ pc = "calc"
    /\ variant = Perforation6
    /\ LET cone_length == ConeLength(inp.plate_thickness, inp.channel_length)
           cone_radius == ConeRadius6(inp.cone_diameter, inp.final_diameter)
           holes_per_row == HolesPerRow(inp.total_holes, inp.number_of_rows)
           open_area_one_hole == OpenAreaOneHole(inp.final_diameter)
           total_open_area == TotalOpenArea(open_area_one_hole, inp.total_holes)
           scalars ==
               [NoCalc EXCEPT
                   !.cone_length = cone_length,
                   !.cone_radius = cone_radius,
                   !.cone_angle_deg = ConeAngleDeg6(cone_radius, cone_length),
                   !.holes_per_row = holes_per_row,
                   !.open_area_one_hole = open_area_one_hole,
                   !.total_open_area = total_open_area,
                   !.open_area_per_tonne =
                       OpenAreaPerTonne(total_open_area, inp.dry_meal_throughput),
                   !.expansion = Expansion6(inp.final_diameter, inp.pellet_size)]
       IN  IF SpacingRaises(holes_per_row)
           THEN /\ calc' = scalars
                /\ pc' = "failed"
                /\ err' = "ZeroDivisionError"
           ELSE /\ calc' =
                     [scalars EXCEPT
                        !.space_between_holes_list =
                            SpaceBetweenHolesList(inp.pcd_values, holes_per_row,
                                                  inp.final_diameter),
                        !.space_between_rows = SpaceBetweenRows(inp.pcd_values)]
                /\ pc' = "display"
                /\ err' = err
    /\ UNCHANGED <<variant, inp, shown, rendered, mesh, ring>>

Calculations4 ==
    /\ pc = "calc"
    /\ variant = Final4
    /\ LET cone_length == ConeLength(inp.plate_thickness, inp.channel_length)
           cone_radius == ConeRadius4(inp.cone_diameter, inp.final_diameter)
           open_area_one_hole == OpenAreaOneHole(inp.final_diameter)
           total_open_area == TotalOpenArea(open_area_one_hole, inp.total_holes)
       IN  IF ConeAngleRaises4(cone_length)
           THEN /\ calc' = [NoCalc EXCEPT !.cone_length = cone_length,
                                          !.cone_radius = cone_radius]
                /\ pc' = "failed"
                /\ err' = "ZeroDivisionError"
           ELSE /\ calc' =
                     [NoCalc EXCEPT
                        !.cone_length = cone_length,
                        !.cone_radius = cone_radius,
                        !.cone_angle_deg = ConeAngleDeg4(cone_radius, cone_length),
                        !.open_area_one_hole = open_area_one_hole,
                        !.total_open_area = total_open_area,
                        !.open_area_per_tonne =
                            OpenAreaPerTonne(total_open_area, inp.dry_meal_throughput),
                        !.expansion = Expansion4(inp.final_diameter, inp.pellet_size)]
                /\ pc' = "display"
                /\ err' = err
    /\ UNCHANGED <<variant, inp, shown, rendered, mesh, ring>>

(* ---------------- display of the outputs ---------------- *)
Line(label) == [label |-> label, row |-> 0]

(* die_perforation_6.py lines 59-72: one st.write per metric, in order *)
DisplayLines6 ==
    <<Line("Cone Length"), Line("Cone Angle"), Line("Open Area of One Hole"),
      Line("Total Plate Open Area"), Line("Open Area per Tonne"),
      Line("Number of Holes per Row")>>
    \o [k \in 1..Len(calc.space_between_holes_list) |->
           [label |-> "Space Between Holes", row |-> k]]
    \o <<Line("Space Between Rows (calculated)"), Line("Expansion")>>

(* die_designer_final_4.py lines 49-55 *)
DisplayLines4 ==
    <<Line("Cone Length"), Line("Cone Angle"), Line("Open Area of One Hole"),
      Line("Total Plate Open Area"), Line("Open Area per Tonne"),
      Line("Expansion")>>

DisplayOutputs6 ==
    /\ pc = "display"
    /\ variant = Perforation6
    /\ shown' = DisplayLines6
    /\ pc' = "draw2d"
    /\ UNCHANGED <<variant, err, inp, calc, rendered, mesh, ring>>

DisplayOutputs4 ==
    /\ pc = "display"
    /\ variant = Final4
    /\ shown' = DisplayLines4
    /\ pc' = "draw2d"
    /\ UNCHANGED <<variant, err, inp, calc, rendered, mesh, ring>>

(* ---------------- 2D cross-section ---------------- *)
(* the six vertices of the cone polygon and the channel rectangle           *)
(* (origin, width, height); die_perforation_6.py lines 81-92,               *)
(* die_designer_final_4.py lines 65-74 *)
ConePatch ==
    <<<<Rat(-inp.cone_diameter, 2), RatInt(0)>>,
      <<Rat(-inp.final_diameter, 2), RatInt(calc.cone_length)>>,
      <<Rat(-inp.final_diameter, 2), RatInt(inp.plate_thickness)>>,
      <<Rat(inp.final_diameter, 2), RatInt(inp.plate_thickness)>>,
      <<Rat(inp.final_diameter, 2), RatInt(calc.cone_length)>>,
      <<Rat(inp.cone_diameter, 2), RatInt(0)>>>>

ChannelPatch ==
    [origin |-> <<Rat(-inp.final_diameter, 2), RatInt(calc.cone_length)>>,
     width |-> inp.final_diameter, height |-> inp.channel_length]

(* mutant: the drawing rejects a profile without a cone *)
CrossSectionRejectsDegenerate ==
    /\ pc = "draw2d"
    /\ IF calc.cone_length <= 0
       THEN /\ pc' = "failed"
            /\ err' = "ValueError"
            /\ rendered' = rendered
       ELSE /\ rendered' = Append(rendered,
                                  [fig |-> "fig2d", cone |-> ConePatch,
                                   channel |-> ChannelPatch])
            /\ pc' = IF variant = Perforation6 THEN "draw3d" ELSE "ring"
            /\ err' = err
    /\ UNCHANGED <<variant, inp, calc, shown, mesh, ring>>

CrossSection ==
    /\ pc = "draw2d"
    /\ rendered' = Append(rendered,
                          [fig |-> "fig2d", cone |-> ConePatch, channel |-> ChannelPatch])
    /\ pc' = IF variant = Perforation6 THEN "draw3d" ELSE "ring"
    /\ UNCHANGED <<variant, err, inp, calc, shown, mesh, ring>>

(* ---------------- 3D surface of revolution (die_perforation_6.py) -------- *)
ConeDepthSamples == 30
ChannelDepthSamples == 10
AngularSamples == 30

(* line 104 *)
ZCone(cone_length) == Linspace(RatInt(0), RatInt(cone_length), ConeDepthSamples)

(* line 105 *)
ZChannel(cone_length, plate_thickness) ==
    Linspace(RatInt(cone_length), RatInt(plate_thickness), ChannelDepthSamples)

(* line 106: np.linspace(0, 2 pi, 30), in full turns *)
Theta == Linspace(RatInt(0), RatInt(1), AngularSamples)

(* mutant: the depth fraction taken from the sample index k / num *)
RConeOffByOne(z_cone, cone_diameter, final_diameter, cone_length) ==
    IF cone_length > 0
    THEN [k \in 1..Len(z_cone) |->
             RatSub(Rat(cone_diameter, 2),
                    RatMul(Rat(cone_diameter - final_diameter, 2),
                           Rat(k, Len(z_cone))))]
    ELSE FullLike(z_cone, Rat(final_diameter, 2))

(* line 110 *)
RCone(z_cone, cone_diameter, final_diameter, cone_length) ==
    IF cone_length > 0
    THEN [k \in 1..Len(z_cone) |->
             RatSub(Rat(cone_diameter, 2),
                    RatMul(Rat(cone_diameter - final_diameter, 2),
                           RatDiv(z_cone[k], RatInt(cone_length))))]
    ELSE FullLike(z_cone, Rat(final_diameter, 2))

(* line 115 *)
RChannel(z_channel, final_diameter) == FullLike(z_channel, Rat(final_diameter, 2))

(* r cos(theta), r sin(theta), z: the point at radius r and angle theta,   *)
(* cos and sin having period one full turn *)
SurfacePoint(r, theta, z) ==
    [radius |-> r, turn |-> Rat(theta.n % theta.d, theta.d), z |-> z]

(* lines 111-113 *)
ConeSurface(k, j) == SurfacePoint(mesh.r_cone[k], mesh.theta[j], mesh.z_cone[k])

(* lines 116-118 *)
ChannelSurface(k, j) ==
    SurfacePoint(mesh.r_channel[k], mesh.theta[j], mesh.z_channel[k])

Visualization3D ==
    /\ pc = "draw3d"
    /\ variant = Perforation6
    /\ LET z_cone == ZCone(calc.cone_length)
           z_channel == ZChannel(calc.cone_length, inp.plate_thickness)
       IN  mesh' = [z_cone |-> z_cone,
                    r_cone |-> RCone(z_cone, inp.cone_diameter, inp.final_diameter,
                                     calc.cone_length),
                    z_channel |-> z_channel,
                    r_channel |-> RChannel(z_channel, inp.final_diameter),
                    theta |-> Theta]
    /\ rendered' = Append(rendered, [fig |-> "fig3d"])
    /\ pc' = "ring"
    /\ UNCHANGED <<variant, err, inp, calc, shown, ring>>

(* ---------------- ring layout ---------------- *)
MarginMm == 10

(* mutant: odd rows staggered by half a hole pitch *)
RowHolesStaggered(row, pcd, n) ==
    [k \in 1..n |->
        [row |-> row, i |-> k - 1, radius |-> Rat(pcd, 2),
         turn |-> Rat(2 * (k - 1) + (row % 2), 2 * n)]]

(* the holes of one row: i in range(n), angle = 2 pi i / n, centre at      *)
(* (radius cos(angle), radius sin(angle)) *)
RowHoles(row, pcd, n) ==
    [k \in 1..n |->
        [row |-> row, i |-> k - 1, radius |-> Rat(pcd, 2), turn |-> Rat(k - 1, n)]]

(* die_perforation_6.py lines 130-137: every row has holes_per_row holes *)
RECURSIVE RingHoles6(_, _, _)
RingHoles6(pcd_values, holes_per_row, row) ==
    IF row > Len(pcd_values) THEN <<>>
    ELSE RowHoles(row, pcd_values[row], holes_per_row)
         \o RingHoles6(pcd_values, holes_per_row, row + 1)

(* die_designer_final_4.py lines 88-96: row r has holes_per_row_list[r] holes *)
RECURSIVE RingHoles4(_, _, _)
RingHoles4(pcd_values, holes_per_row_list, row) ==
    IF row > Len(pcd_values) THEN <<>>
    ELSE RowHoles(row, pcd_values[row], holes_per_row_list[row])
         \o RingHoles4(pcd_values, holes_per_row_list, row + 1)

(* die_perforation_6.py lines 138-139: set_xlim/set_ylim inside the row    *)
(* loop, so the limits left are those of the last row *)
RingLim6(pcd_values) ==
    RatAdd(Rat(pcd_values[Len(pcd_values)], 2), RatInt(Mm(MarginMm)))

(* die_designer_final_4.py lines 97-98 *)
RingLim4(pcd_values) ==
    RatAdd(Rat(MaxSeq(pcd_values), 2), RatInt(Mm(MarginMm)))

RingLayout6 ==
    /\ pc = "ring"
    /\ variant = Perforation6
    /\ ring' = [holes |-> RingHoles6(inp.pcd_values, calc.holes_per_row, 1),
                lim |-> RingLim6(inp.pcd_values)]
    /\ rendered' = Append(rendered, [fig |-> "fig_ring"])
    /\ pc' = "done"
    /\ UNCHANGED <<variant, err, inp, calc, shown, mesh>>

RingLayout4 ==
    /\ pc = "ring"
    /\ variant = Final4
    /\ ring' = [holes |-> RingHoles4(inp.pcd_values, inp.holes_per_row_list, 1),
                lim |-> RingLim4(inp.pcd_values)]
    /\ rendered' = Append(rendered, [fig |-> "fig_ring"])
    /\ pc' = "done"
    /\ UNCHANGED <<variant, err, inp, calc, shown, mesh>>

(* ---------------- Streamlit reruns the script on every change ------------ *)
Rerun ==
    /\ pc \in {"done", "failed"}
    /\ pc' = "start"
    /\ err' = "none"
    /\ inp' = NoInp
    /\ calc' = NoCalc
    /\ shown' = <<>>
    /\ rendered' = <<>>
    /\ mesh' = NoMesh
    /\ ring' = NoRing
    /\ UNCHANGED variant

Next ==
    \/ Compile
    \/ ReadInputs6
    \/ ReadInputs4
    \/ Calculations6
    \/ Calculations4
    \/ DisplayOutputs6
    \/ DisplayOutputs4
    \/ CrossSection
    \/ Visualization3D
    \/ RingLayout6
    \/ RingLayout4
    \/ Rerun

Spec == Init /\ [][Next]_vars

(* ======================= the claims ======================= *)
Calculated == pc \in {"display", "draw2d", "draw3d", "ring", "done"}

(* C1: in every variant, with channelLength == plateThickness (coneLength   *)
(* == 0) and no zero-hole row, the run does not fail, coneAngleDeg is 0 and *)
(* the cone radius of the mesh is finalDiameter/2 at every depth sample.    *)
C1_DegenerateConeNeverRaises ==
    (/\ pc \notin {"start", "calc"}
     /\ inp.plate_thickness > 0
     /\ inp.channel_length = inp.plate_thickness
     /\ (variant = Perforation6 => inp.total_holes >= inp.number_of_rows))
    => /\ pc # "failed"
       /\ err = "none"
       /\ calc.cone_angle_deg = 0
       /\ \A k \in 1..Len(mesh.r_cone) :
             mesh.r_cone[k] = Rat(inp.final_diameter, 2)

(* C2: no partial results: a finished run has displayed every metric and    *)
(* rendered every drawing of its variant, and a failed run has displayed no *)
(* metric and rendered no drawing.                                          *)
FigNames == [k \in 1..Len(rendered) |-> rendered[k].fig]
C2_NoPartialResults ==
    /\ pc = "failed" => (shown = <<>> /\ rendered = <<>>)
    /\ (pc = "done" /\ variant = Perforation6) =>
          /\ Len(shown) = 8 + inp.number_of_rows
          /\ FigNames = <<"fig2d", "fig3d", "fig_ring">>
    /\ (pc = "done" /\ variant = Final4) =>
          /\ Len(shown) = 6
          /\ FigNames = <<"fig2d", "fig_ring">>
    /\ (shown # <<>> \/ rendered # <<>>) => Calculated

C2_Witness ==
    /\ pc = "failed"
    /\ err = "ZeroDivisionError"
    /\ variant = Perforation6
    /\ inp.total_holes < inp.number_of_rows

(* C3 as stated: in the uniform-row variant a zero-hole row makes the       *)
(* spacing computation fail with an InvalidParameter error, with no         *)
(* rowSpacing sequence produced.                                            *)
C3_FailsWithInvalidParameter ==
    (/\ variant = Perforation6
     /\ pc \notin {"start", "calc"}
     /\ inp.total_holes < inp.number_of_rows)
    => /\ pc = "failed"
       /\ err = "InvalidParameter"
       /\ calc.space_between_holes_list = <<>>

(* C3 amended: in the uniform-row variant a zero-hole row makes the spacing *)
(* computation fail with a ZeroDivisionError; no rowSpacing sequence is     *)
(* produced (so no infinite or NaN spacing value either) and nothing is     *)
(* displayed.                                                               *)
C3_FailsWithZeroDivisionError ==
    (/\ variant = Perforation6
     /\ pc \notin {"start", "calc"}
     /\ inp.total_holes < inp.number_of_rows)
    => /\ pc = "failed"
       /\ err = "ZeroDivisionError"
       /\ calc.holes_per_row = 0
       /\ calc.space_between_holes_list = <<>>
       /\ shown = <<>>

C3_Witness ==
    /\ variant = Perforation6
    /\ pc = "failed"
    /\ inp.total_holes = 1
    /\ inp.number_of_rows = 2
    /\ calc.holes_per_row = 0

(* C4: the channelLength handed to the calculations always satisfies        *)
(* 0 < channelLength <= min(35, plateThickness).                            *)
C4_ChannelLengthWithinPlate ==
    (pc # "start" /\ inp.plate_thickness > 0)
    => /\ 0 < inp.channel_length
       /\ inp.channel_length <= Min2(Mm(35), inp.plate_thickness)

(* C5: the ring layout holds, row after row in row order, exactly n_r       *)
(* centres for row r, the i-th (i = 0..n_r-1) at radius pcd_r/2 and at the  *)
(* fraction i/n_r of a full turn: every row starts at angle 0, consecutive  *)
(* holes are 1/n_r of a turn apart, and the number of centres is the sum of *)
(* the n_r.                                                                 *)
HoleCounts ==
    [r \in 1..inp.number_of_rows |->
        IF variant = Perforation6 THEN calc.holes_per_row
        ELSE inp.holes_per_row_list[r]]
RowOffset(r) == SumSeq(SubSeq(HoleCounts, 1, r - 1))
C5_RingLayout ==
    pc = "done" =>
      /\ Len(ring.holes) = SumSeq(HoleCounts)
      /\ \A r \in 1..inp.number_of_rows :
           \A i \in 0..(HoleCounts[r] - 1) :
              LET h == ring.holes[RowOffset(r) + i + 1]
              IN  /\ h.row = r
                  /\ h.i = i
                  /\ h.radius = Rat(inp.pcd_values[r], 2)
                  /\ h.turn = Rat(i, HoleCounts[r])
                  /\ i = 0 => h.turn = RatInt(0)
                  /\ i > 0 =>
                       RatSub(h.turn, ring.holes[RowOffset(r) + i].turn)
                         = Rat(1, HoleCounts[r])

C5_Witness ==
    /\ pc = "done"
    /\ variant = Final4
    /\ inp.holes_per_row_list = <<3, 1, 3>>
    /\ inp.pcd_values = <<Mm(100), Mm(50), Mm(100)>>
    /\ Len(ring.holes) = 7

(* C6: after the ring layout the bounding radius of the viewport is the     *)
(* maximum over the rows of pcd_r/2, plus the margin of 10 mm.              *)
C6_BoundingRadiusIsMax ==
    pc = "done" =>
      ring.lim = RatAdd(Rat(MaxSeq(inp.pcd_values), 2), RatInt(Mm(10)))

(* C7: with coneLength > 0 the cone angle comes from |coneDiameter -        *)
(* finalDiameter|/2 over coneLength: coneAngleDeg is never negative and is  *)
(* 0 exactly when coneDiameter == finalDiameter.                            *)
C7_ConeAngleFromAbsoluteValue ==
    calc.cone_length > 0 =>
      /\ calc.cone_radius = Rat(Abs(inp.cone_diameter - inp.final_diameter), 2)
      /\ calc.cone_angle_deg >= 0
      /\ (calc.cone_angle_deg = 0) <=> (inp.cone_diameter = inp.final_diameter)

(* C8: in the uniform-row variant holesPerRow is floor(totalHoles /         *)
(* numberOfRows); the layout gives every row that count, so it places       *)
(* numberOfRows * holesPerRow holes: never more than totalHoles, and short  *)
(* of it by totalHoles mod numberOfRows.                                    *)
C8_UniformRowsDropRemainder ==
    (variant = Perforation6 /\ pc \notin {"start", "calc"}) =>
      /\ calc.holes_per_row * inp.number_of_rows <= inp.total_holes
      /\ inp.total_holes < (calc.holes_per_row + 1) * inp.number_of_rows
      /\ pc = "done" =>
           /\ \A r \in 1..inp.number_of_rows :
                Cardinality({k \in 1..Len(ring.holes) : ring.holes[k].row = r})
                  = calc.holes_per_row
           /\ Len(ring.holes) = inp.number_of_rows * calc.holes_per_row
           /\ Len(ring.holes) <= inp.total_holes
           /\ inp.total_holes - Len(ring.holes)
                = inp.total_holes % inp.number_of_rows

C8_Witness ==
    /\ variant = Perforation6
    /\ pc = "done"
    /\ inp.total_holes = 3
    /\ inp.number_of_rows = 2
    /\ Len(ring.holes) = 2

(* C9: rowPitchGap is 0 with fewer than 2 rows; otherwise it is the same    *)
(* for every permutation of the row PCD values, is never negative, and      *)
(* equals (max PCD - min PCD) / (numberOfRows - 1).                         *)
RECURSIVE MinSeq(_)
MinSeq(s) == IF Len(s) = 1 THEN s[1] ELSE Min2(Head(s), MinSeq(Tail(s)))
Permuted(s, p) == [k \in 1..Len(s) |-> s[p[k]]]
C9_RowPitchGap ==
    (variant = Perforation6 /\ Calculated) =>
      LET pcds == inp.pcd_values
          n == Len(pcds)
      IN  /\ n < 2 => calc.space_between_rows = RatInt(0)
          /\ n >= 2 =>
               /\ calc.space_between_rows.n >= 0
               /\ calc.space_between_rows = Rat(MaxSeq(pcds) - MinSeq(pcds), n - 1)
               /\ \A p \in Permutations(1..n) :
                    SpaceBetweenRows(Permuted(pcds, p)) = calc.space_between_rows

C9_Witness ==
    /\ variant = Perforation6
    /\ Calculated
    /\ inp.pcd_values = <<Mm(100), Mm(120), Mm(50)>>
    /\ calc.space_between_rows = RatInt(Mm(35))

(* C10: with coneLength > 0 the revolution mesh is closed and continuous:   *)
(* the cone starts at z = 0 with radius coneDiameter/2 and ends at z =      *)
(* coneLength with radius finalDiameter/2, the channel starts at z =        *)
(* coneLength with radius finalDiameter/2 (its first ring is the cone's     *)
(* last) and ends at z = plateThickness, and on every ring the first and    *)
(* the last angular sample are the same point.                              *)
C10_MeshClosedAndContinuous ==
    (mesh # NoMesh /\ calc.cone_length > 0) =>
      LET nc == Len(mesh.z_cone)
          nch == Len(mesh.z_channel)
          nt == Len(mesh.theta)
      IN  /\ nc = ConeDepthSamples /\ nch = ChannelDepthSamples /\ nt = AngularSamples
          /\ mesh.z_cone[1] = RatInt(0)
          /\ mesh.r_cone[1] = Rat(inp.cone_diameter, 2)
          /\ mesh.z_cone[nc] = RatInt(calc.cone_length)
          /\ mesh.r_cone[nc] = Rat(inp.final_diameter, 2)
          /\ mesh.z_channel[1] = RatInt(calc.cone_length)
          /\ mesh.r_channel[1] = Rat(inp.final_diameter, 2)
          /\ mesh.z_channel[nch] = RatInt(inp.plate_thickness)
          /\ \A j \in 1..nt : ConeSurface(nc, j) = ChannelSurface(1, j)
          /\ \A k \in 1..nc : ConeSurface(k, 1) = ConeSurface(k, nt)
          /\ \A k \in 1..nch : ChannelSurface(k, 1) = ChannelSurface(k, nt)

C10_Witness ==
    /\ mesh # NoMesh
    /\ calc.cone_length = Mm(6)
    /\ inp.cone_diameter = Mm(6)
    /\ inp.final_diameter = Mm(3)
    /\ mesh.r_cone[2] # mesh.r_cone[1]
====
